---- MODULE Spec2Model ----
(***************************************************************************)
(* A model of cmd/mygit/main.go: a content-addressed object store with the *)
(* commands hash-object, cat-file, ls-tree, write-tree and commit-tree.    *)
(*                                                                         *)
(* Byte strings are sequences of integers 0..255 (Go strings and []byte).  *)
(* The object store is the directory .git/objects: a function from a       *)
(* location <<directory name, file name>> to the bytes of the file.        *)
(* The working directory is a function from a path (a sequence of names)   *)
(* to a node.                                                              *)
(***************************************************************************)
EXTENDS Integers, Sequences, FiniteSets

VARIABLES fs, store, last

vars == <<fs, store, last>>

(***************************************************************************)
(* Bytes and string literals of the source.                                *)
(***************************************************************************)
NUL == 0
SP == 32
LF == 10

KindBlob == <<98, 108, 111, 98>>
KindTree == <<116, 114, 101, 101>>
KindCommit == <<99, 111, 109, 109, 105, 116>>

ModeFile == <<49, 48, 48, 54, 52, 52>>
ModeExec == <<49, 48, 48, 55, 53, 53>>
ModeLink == <<49, 50, 48, 48, 48, 48>>
ModeDir == <<52, 48, 48, 48, 48>>

DotGit == <<46, 103, 105, 116>>

\* "tree ", "parent ", "author ", "committer " of commitTree's format strings.
WordTree == KindTree \o <<SP>>
WordParent == <<112, 97, 114, 101, 110, 116, SP>>
WordAuthor == <<97, 117, 116, 104, 111, 114, SP>>
WordCommitter == <<99, 111, 109, 109, 105, 116, 116, 101, 114, SP>>

\* "John Doe <john@example.com> 1631234567 -0700"
author ==
    <<74, 111, 104, 110, SP, 68, 111, 101, SP, 60, 106, 111, 104, 110, 64,
      101, 120, 97, 109, 112, 108, 101, 46, 99, 111, 109, 62, SP,
      49, 54, 51, 49, 50, 51, 52, 53, 54, 55, SP, 45, 48, 55, 48, 48>>

\* "Jane Smith <jane@example.com> 1631234789 -0700"
committer ==
    <<74, 97, 110, 101, SP, 83, 109, 105, 116, 104, SP, 60, 106, 97, 110,
      101, 64, 101, 120, 97, 109, 112, 108, 101, 46, 99, 111, 109, 62, SP,
      49, 54, 51, 49, 50, 51, 52, 55, 56, 57, SP, 45, 48, 55, 48, 48>>

(***************************************************************************)
(* Library functions of the Go runtime, by what they compute.              *)
(***************************************************************************)

\* fmt's %d of a non-negative int.
RECURSIVE Dec(_)
Dec(n) == IF n < 10 THEN <<48 + n>> ELSE Dec(n \div 10) \o <<48 + (n % 10)>>

\* strings.ToLower on one byte, and on a string (ASCII).
LowerByte(b) == IF b >= 65 /\ b <= 90 THEN b + 32 ELSE b

ToLower(s) == [i \in 1..Len(s) |-> LowerByte(s[i])]

\* Go's < on strings: byte-wise lexicographic.
RECURSIVE StrLess(_, _)
StrLess(a, b) ==
    IF b = <<>> THEN FALSE
    ELSE IF a = <<>> THEN TRUE
    ELSE IF a[1] # b[1] THEN a[1] < b[1]
    ELSE StrLess(Tail(a), Tail(b))

\* strings.Contains(s, sub).
Contains(s, sub) ==
    \E i \in 0..(Len(s) - Len(sub)) : SubSeq(s, i + 1, i + Len(sub)) = sub

\* s[n:] of a Go string.
From(s, n) == SubSeq(s, n + 1, Len(s))

\* strings.Join(items, sep).
\* The concatenation of ss[lo..hi], a sequence of strings.
RECURSIVE Flatten(_, _, _)
Flatten(ss, lo, hi) ==
    IF lo > hi THEN <<>>
    ELSE IF lo = hi THEN ss[lo]
    ELSE LET mid == (lo + hi) \div 2
         IN  Flatten(ss, lo, mid) \o Flatten(ss, mid + 1, hi)

\* The sum of the integers s[lo..hi].
RECURSIVE SumRange(_, _, _)
SumRange(s, lo, hi) ==
    IF lo > hi THEN 0
    ELSE IF lo = hi THEN s[lo]
    ELSE LET mid == (lo + hi) \div 2
         IN  SumRange(s, lo, mid) + SumRange(s, mid + 1, hi)

\* strings.Join(items, sep).
Join(items, sep) ==
    Flatten([i \in 1..Len(items) |->
                IF i = 1 THEN items[i] ELSE sep \o items[i]],
            1, Len(items))

\* hex.EncodeToString: two lower-case hex digits per byte.
HexDigit(d) == IF d < 10 THEN 48 + d ELSE 87 + d

EncodeToString(bs) ==
    [i \in 1..(2 * Len(bs)) |->
        IF i % 2 = 1 THEN HexDigit(bs[(i + 1) \div 2] \div 16)
        ELSE HexDigit(bs[i \div 2] % 16)]

\* crypto/sha1 and its digest size.  sha1.Sum stands as a deterministic
\* function from byte strings to DigestLen bytes: a position-weighted sum
\* of the input modulo a prime, spread over the digest; the first three
\* bytes carry the sum.
DigestLen == 20

Sha1Modulus == 4194301

Sha1Weight(i) == (i * 7919 * (i + 13) + 1) % Sha1Modulus

Sha1Sum(p) ==
    LET n == Len(p)
        h == (n + SumRange([i \in 1..n |->
                               ((p[i] + 1) * Sha1Weight(i)) % 10000019],
                           1, n)) % Sha1Modulus
    IN  [k \in 1..DigestLen |->
            IF k = 1 THEN h \div 65536
            ELSE IF k = 2 THEN (h \div 256) % 256
            ELSE IF k = 3 THEN h % 256
            ELSE (h * k + 7 * k * k + (h \div k)) % 256]

\* hash/adler32, the checksum that ends a zlib stream (big-endian):
\* a = 1 + the sum of the bytes, b = the sum of the values a takes.
AdlerModulus == 65521

Adler32(p) ==
    LET n == Len(p)
        a == (1 + SumRange(p, 1, n)) % AdlerModulus
        b == (n + SumRange([i \in 1..n |-> (n - i + 1) * p[i]], 1, n))
                 % AdlerModulus
    IN  <<b \div 256, b % 256, a \div 256, a % 256>>

(***************************************************************************)
(* compress/zlib.  A zlib stream is a 2-byte header, a deflate stream and  *)
(* the Adler-32 of the uncompressed data.  The deflate stream is modelled  *)
(* with stored blocks (RFC 1951, BTYPE=00): one header byte, LEN and NLEN  *)
(* as two little-endian bytes each, then LEN literal bytes.                *)
(***************************************************************************)
ZlibHeader == <<120, 156>>

StoredBlock(data, final) ==
    LET n == Len(data)
        c == 65535 - n
    IN  <<final, n % 256, n \div 256, c % 256, c \div 256>> \o data

\* compressContent: zlib.NewWriter, Write, Close.
compressContent(content) ==
    ZlibHeader \o StoredBlock(content, 1) \o Adler32(content)

\* zlib.NewReader: reads and checks the 2-byte header.
NewReaderOk(bs) ==
    /\ Len(bs) >= 2
    /\ bs[1] % 16 = 8
    /\ bs[1] \div 16 <= 7
    /\ (bs[1] * 256 + bs[2]) % 31 = 0
    /\ (bs[2] \div 32) % 2 = 0

\* The flate reader on bs from position pos (1-based), with acc already
\* produced.  On an error the bytes produced so far are still handed to
\* the caller of Read, followed by the error.
RECURSIVE Inflate(_, _, _)
Inflate(bs, pos, acc) ==
    IF pos > Len(bs)
    THEN [data |-> acc, err |-> "unexpected EOF", next |-> pos]
    ELSE IF (bs[pos] \div 2) % 4 # 0
    THEN [data |-> acc, err |-> "corrupt input", next |-> pos]
    ELSE IF pos + 4 > Len(bs)
    THEN [data |-> acc, err |-> "unexpected EOF", next |-> pos]
    ELSE LET n == bs[pos + 1] + 256 * bs[pos + 2]
             c == bs[pos + 3] + 256 * bs[pos + 4]
             avail == Len(bs) - (pos + 4)
         IN  IF c # 65535 - n
             THEN [data |-> acc, err |-> "corrupt input", next |-> pos]
             ELSE IF avail < n
             THEN [data |-> acc \o SubSeq(bs, pos + 5, Len(bs)),
                   err |-> "unexpected EOF", next |-> Len(bs) + 1]
             ELSE IF bs[pos] % 2 = 1
             THEN [data |-> acc \o SubSeq(bs, pos + 5, pos + 4 + n),
                   err |-> "", next |-> pos + 5 + n]
             ELSE Inflate(bs, pos + 5 + n,
                          acc \o SubSeq(bs, pos + 5, pos + 4 + n))

\* io.ReadAll(zlibReader): the data read and the error that ended the read
\* ("" for io.EOF after a matching checksum).
ReadAll(bs) ==
    LET r == Inflate(bs, 3, <<>>)
    IN  IF r.err # "" THEN [data |-> r.data, err |-> r.err]
        ELSE IF r.next + 3 > Len(bs)
        THEN [data |-> r.data, err |-> "unexpected EOF"]
        ELSE IF SubSeq(bs, r.next, r.next + 3) # Adler32(r.data)
        THEN [data |-> r.data, err |-> "checksum"]
        ELSE [data |-> r.data, err |-> ""]

\* regexp `[\x00\s]`: NUL and the Perl space class [\t\n\f\r ].
IsSeparator(b) == b \in {0, 9, 10, 12, 13, 32}

\* re.Split(content, -1) for that expression: the pieces between
\* consecutive matches, empty pieces included.
Split(s) ==
    LET at == {i \in 1..Len(s) : IsSeparator(s[i])}
        n == Cardinality(at)
        \* the position of the k-th match; 0 and Len(s) + 1 at the ends
        pos(k) == IF k = 0 THEN 0
                  ELSE IF k > n THEN Len(s) + 1
                  ELSE CHOOSE i \in at :
                           Cardinality({j \in at : j < i}) = k - 1
    IN  [k \in 1..(n + 1) |-> SubSeq(s, pos(k - 1) + 1, pos(k) - 1)]

\* strings.SplitN(s, "\x00", 2): at most two parts, cut at the first NUL.
SplitN2(s) ==
    IF \E i \in 1..Len(s) : s[i] = NUL
    THEN LET i == CHOOSE j \in 1..Len(s) :
                     s[j] = NUL /\ \A k \in 1..(j - 1) : s[k] # NUL
         IN  <<SubSeq(s, 1, i - 1), From(s, i)>>
    ELSE <<s>>

(***************************************************************************)
(* The object store.                                                       *)
(***************************************************************************)

\* filepath.Join(".git/objects", sha[:2], sha[2:]) for a hex string.
ObjectPath(sha) == <<SubSeq(sha, 1, 2), From(sha, 2)>>

\* os.WriteFile(path, content, 0644): creates or truncates, then writes.
WriteFile(st, path, content) ==
    [l \in DOMAIN st \cup {path} |-> IF l = path THEN content ELSE st[l]]

\* writeObject with the directory named by three characters of the id.
writeObjectSplitAtThree(st, hash, content) ==
    LET hashString == EncodeToString(hash)
    IN  WriteFile(st, <<SubSeq(hashString, 1, 3), From(hashString, 3)>>,
                  content)

writeObject(st, hash, content) ==
    LET hashString == EncodeToString(hash)
        objectFilePath == ObjectPath(hashString)
    IN  WriteFile(st, objectFilePath, content)

\* The payload with a space where the NUL belongs.
ObjectContentSpaceSeparator(objectType, content) ==
    objectType \o <<SP>> \o Dec(Len(content)) \o <<SP>> \o content

\* fmt.Sprintf("%s %d\x00%s", objectType, len(content), content)
ObjectContent(objectType, content) ==
    objectType \o <<SP>> \o Dec(Len(content)) \o <<NUL>> \o content

\* createObject: the store after the call and the hash returned.
createObject(st, objectType, content) ==
    LET objectContent == ObjectContent(objectType, content)
        hash == Sha1Sum(objectContent)
        compressedContent == compressContent(objectContent)
    IN  [st |-> writeObject(st, hash, compressedContent), hash |-> hash]

\* readAndDecompressFile: exits when the file cannot be read or the zlib
\* header is refused; otherwise returns what io.ReadAll produced, the
\* error of io.ReadAll being dropped.  readErr is that dropped error.
readAndDecompressFile(st, filePath) ==
    IF filePath \notin DOMAIN st
    THEN [outcome |-> "exit", content |-> <<>>, readErr |-> ""]
    ELSE IF ~NewReaderOk(st[filePath])
    THEN [outcome |-> "exit", content |-> <<>>, readErr |-> ""]
    ELSE LET r == ReadAll(st[filePath])
         IN  [outcome |-> "ok", content |-> r.data, readErr |-> r.err]

\* catFile(blobSHA): outcome "ok" with the bytes printed, "exit" for
\* os.Exit(1), "panic" for a run-time panic (slice or index out of range).
catFile(st, blobSHA) ==
    IF Len(blobSHA) < 2
    THEN [outcome |-> "panic", stdout |-> <<>>]
    ELSE LET r == readAndDecompressFile(st, ObjectPath(blobSHA))
         IN  IF r.outcome = "exit"
             THEN [outcome |-> "exit", stdout |-> <<>>]
             ELSE LET parts == SplitN2(r.content)
                  IN  IF Len(parts) < 2
                      THEN [outcome |-> "panic", stdout |-> <<>>]
                      ELSE [outcome |-> "ok", stdout |-> parts[2]]

\* lsTree's list of modes.
modes == <<ModeFile, ModeExec, ModeLink, ModeDir>>

\* lsTree's loops: for every part and every mode the part contains, the
\* part after it is appended; appending after the last part is an index
\* out of range.
ModesIn(part) == {m \in 1..Len(modes) : Contains(part, modes[m])}

LsTreeLoop(contentParts) ==
    LET n == Len(contentParts)
        hits == [index \in 1..n |-> Cardinality(ModesIn(contentParts[index]))]
    IN  IF n > 0 /\ hits[n] > 0
        THEN [outcome |-> "panic", items |-> <<>>]
        ELSE [outcome |-> "ok",
              items |-> Flatten([index \in 1..n |->
                                    [c \in 1..hits[index] |->
                                        contentParts[index + 1]]],
                                1, n)]

\* lsTree(treeSHA): the names collected and the line printed.
lsTree(st, treeSHA) ==
    IF Len(treeSHA) < 2
    THEN [outcome |-> "panic", items |-> <<>>, stdout |-> <<>>]
    ELSE LET r == readAndDecompressFile(st, ObjectPath(treeSHA))
         IN  IF r.outcome = "exit"
             THEN [outcome |-> "exit", items |-> <<>>, stdout |-> <<>>]
             ELSE LET l == LsTreeLoop(Split(r.content))
                  IN  IF l.outcome = "panic"
                      THEN [outcome |-> "panic", items |-> <<>>,
                            stdout |-> <<>>]
                      ELSE [outcome |-> "ok", items |-> l.items,
                            stdout |-> Join(l.items, <<LF>>) \o <<LF>>]

(***************************************************************************)
(* The working directory and the tree builder.                             *)
(***************************************************************************)

\* The direct children of a directory, as names.
ChildNames(f, path) ==
    {q[Len(q)] : q \in {r \in DOMAIN f :
                           /\ Len(r) = Len(path) + 1
                           /\ SubSeq(r, 1, Len(path)) = path}}

RECURSIVE SortedByFilename(_)
SortedByFilename(S) ==
    IF S = {} THEN <<>>
    ELSE LET x == CHOOSE y \in S : \A z \in S \ {y} : StrLess(y, z)
         IN  <<x>> \o SortedByFilename(S \ {x})

\* os.ReadDir(path) with its error dropped: the entries sorted by
\* filename, or none when the directory cannot be opened.
ReadDir(f, path) ==
    IF ~f[path].readable THEN <<>>
    ELSE SortedByFilename(ChildNames(f, path))

\* The less function handed to sort.Slice.
EntryLess(a, b) == StrLess(ToLower(a), ToLower(b))

\* sort.Slice on a slice of at most 12 elements is an insertion sort:
\*   for i := 1; i < n; i++ {
\*     for j := i; j > 0 && less(j, j-1); j-- { swap(j, j-1) } }
RECURSIVE InsertBack(_, _)
InsertBack(s, j) ==
    IF j > 1 /\ EntryLess(s[j], s[j - 1])
    THEN InsertBack([s EXCEPT ![j] = s[j - 1], ![j - 1] = s[j]], j - 1)
    ELSE s

RECURSIVE InsertionSort(_, _)
InsertionSort(s, i) ==
    IF i > Len(s) THEN s ELSE InsertionSort(InsertBack(s, i), i + 1)

SortSlice(entries) == InsertionSort(entries, 2)

\* fmt.Sprintf("%v %v\x00%v", he.mode, he.name, string(he.hash)), summed.
RECURSIVE TreeObjectContent(_)
TreeObjectContent(hashedEntries) ==
    IF hashedEntries = <<>> THEN <<>>
    ELSE LET he == hashedEntries[1]
         IN  he.mode \o <<SP>> \o he.name \o <<NUL>> \o he.hash
                 \o TreeObjectContent(Tail(hashedEntries))

\* os.ReadFile(fp) succeeds on a readable regular file.
CanReadFile(f, fp) == fp \in DOMAIN f /\ ~f[fp].isDir /\ f[fp].readable

\* createFileBlobObject: os.Exit(1) when the file cannot be read.
createFileBlobObject(f, st, fp) ==
    IF ~CanReadFile(f, fp)
    THEN [outcome |-> "exit", st |-> st, hash |-> <<>>]
    ELSE LET r == createObject(st, KindBlob, f[fp].content)
         IN  [outcome |-> "ok", st |-> r.st, hash |-> r.hash]

\* Whether the loop of createTreeObjects skips the entry.
SkipsEntry(f, entryPath) ==
    f[entryPath].isDir /\ entryPath[Len(entryPath)] = DotGit

\* createTreeObjects(path).  The result carries the store after the call,
\* the hash returned, the hashedEntries of this directory, and outcome
\* "exit" when the process exited inside the call.
RECURSIVE createTreeObjects(_, _, _)
RECURSIVE createTreeObjectsFrom(_, _, _, _)
RECURSIVE TreeLoop(_, _, _, _, _, _)

TreeLoop(f, st, path, entries, i, hashedEntries) ==
    IF i > Len(entries)
    THEN LET r == createObject(st, KindTree,
                               TreeObjectContent(hashedEntries))
         IN  [outcome |-> "ok", st |-> r.st, hash |-> r.hash,
              entries |-> hashedEntries]
    ELSE LET entryPath == Append(path, entries[i])
         IN  IF SkipsEntry(f, entryPath)
             THEN TreeLoop(f, st, path, entries, i + 1, hashedEntries)
             ELSE LET r == IF f[entryPath].isDir
                           THEN createTreeObjects(f, st, entryPath)
                           ELSE createFileBlobObject(f, st, entryPath)
                      he == [name |-> entries[i],
                             mode |-> IF f[entryPath].isDir
                                      THEN ModeDir ELSE ModeFile,
                             hash |-> r.hash]
                  IN  IF r.outcome = "exit"
                      THEN [outcome |-> "exit", st |-> r.st,
                            hash |-> <<>>, entries |-> <<>>]
                      ELSE TreeLoop(f, r.st, path, entries, i + 1,
                                    Append(hashedEntries, he))

\* The body of createTreeObjects after os.ReadDir has returned listing.
createTreeObjectsFrom(f, st, path, listing) ==
    TreeLoop(f, st, path, SortSlice(listing), 1, <<>>)

createTreeObjects(f, st, path) ==
    createTreeObjectsFrom(f, st, path, ReadDir(f, path))

\* commitTree's content and payload; before it, the content without the
\* blank line that separates the header lines from the message.
CommitContentNoBlankLine(treeSHA, parentCommitSHA, commitMessage) ==
    WordTree \o treeSHA \o <<LF>>
        \o WordParent \o parentCommitSHA \o <<LF>>
        \o WordAuthor \o author \o <<LF>>
        \o WordCommitter \o committer \o <<LF>>
        \o commitMessage \o <<LF>>

CommitContent(treeSHA, parentCommitSHA, commitMessage) ==
    WordTree \o treeSHA \o <<LF>>
        \o WordParent \o parentCommitSHA \o <<LF>>
        \o WordAuthor \o author \o <<LF>>
        \o WordCommitter \o committer \o <<LF>>
        \o <<LF>> \o commitMessage \o <<LF>>

CommitPayload(content) ==
    KindCommit \o <<SP>> \o Dec(Len(content)) \o <<NUL>> \o content

commitTree(st, treeSHA, parentCommitSHA, commitMessage) ==
    LET content == CommitContent(treeSHA, parentCommitSHA, commitMessage)
        payload == CommitPayload(content)
        hash == Sha1Sum(payload)
    IN  [st |-> writeObject(st, hash, compressContent(payload)),
         hash |-> hash]

(***************************************************************************)
(* Bounds and the inputs drawn within them.                                *)
(***************************************************************************)
\* File contents are the byte strings over ContentBytes up to this length.
MaxContentLen == 1

\* A flat working directory holds at most this many files.
MaxEntries == 2

\* Writing commands run while the store holds fewer objects than this.
MaxObjects == 2

ContentBytes == {NUL, 97}

Contents == UNION {[1..k -> ContentBytes] : k \in 0..MaxContentLen}

NameUpperA == <<65>>
NameLowerA == <<97>>
NameB == <<98>>
NameWithSpace == <<97, SP, 98>>
NameSub == <<115, 117, 98>>

FileNames == {NameUpperA, NameLowerA, NameB, NameWithSpace}

Dir(readable) == [isDir |-> TRUE, readable |-> readable, content |-> <<>>]

File(readable, content) ==
    [isDir |-> FALSE, readable |-> readable, content |-> content]

MkFs(pairs) ==
    [q \in {x[1] : x \in pairs} |-> (CHOOSE x \in pairs : x[1] = q)[2]]

\* The root of every working directory holds the store's own .git.
Base == {<< <<>>, Dir(TRUE) >>, << <<DotGit>>, Dir(TRUE) >>}

SingleFileTrees ==
    {MkFs(Base \cup {<< <<NameLowerA>>, File(TRUE, c) >>}) : c \in Contents}

FlatTrees ==
    {MkFs(Base \cup {<< <<n>>, File(TRUE, n) >> : n \in S}) :
        S \in {T \in SUBSET FileNames :
                  Cardinality(T) >= 2 /\ Cardinality(T) <= MaxEntries}}

NestedTrees ==
    { \* one file and one empty subdirectory
      MkFs(Base \cup {<< <<NameLowerA>>, File(TRUE, <<120>>) >>,
                      << <<NameSub>>, Dir(TRUE) >>}),
      \* a subdirectory holding a directory named .git (a nested repository)
      MkFs(Base \cup {<< <<NameSub>>, Dir(TRUE) >>,
                      << <<NameSub, DotGit>>, Dir(TRUE) >>,
                      << <<NameSub, DotGit, NameLowerA>>, File(TRUE, <<97>>) >>,
                      << <<NameSub, NameB>>, File(TRUE, <<98>>) >>}),
      \* a subdirectory holding a regular file named .git
      MkFs(Base \cup {<< <<NameSub>>, Dir(TRUE) >>,
                      << <<NameSub, DotGit>>, File(TRUE, <<103>>) >>}),
      \* a subdirectory that cannot be read
      MkFs(Base \cup {<< <<NameSub>>, Dir(FALSE) >>,
                      << <<NameSub, NameLowerA>>, File(TRUE, <<97>>) >>,
                      << <<NameB>>, File(TRUE, <<98>>) >>}),
      \* a file that cannot be read, after a subdirectory that can
      MkFs(Base \cup {<< <<NameUpperA>>, Dir(TRUE) >>,
                      << <<NameUpperA, NameLowerA>>, File(TRUE, <<97>>) >>,
                      << <<NameB>>, File(FALSE, <<98>>) >>}),
      \* two levels of subdirectories
      MkFs(Base \cup {<< <<NameSub>>, Dir(TRUE) >>,
                      << <<NameSub, NameSub>>, Dir(TRUE) >>,
                      << <<NameSub, NameSub, NameLowerA>>,
                         File(TRUE, <<97, NUL>>) >>}) }

Worktrees == SingleFileTrees \cup FlatTrees \cup NestedTrees

\* Arguments of commit-tree.
EmptyTreeId == EncodeToString(Sha1Sum(ObjectContent(KindTree, <<>>)))

EmptyBlobId == EncodeToString(Sha1Sum(ObjectContent(KindBlob, <<>>)))

TreeArgs == {EmptyTreeId, <<84>>}

ParentArgs == {EmptyBlobId, <<>>}

\* "" and "init\n"
Messages == {<<>>, <<105, 110, 105, 116, LF>>}

\* Arguments of cat-file and ls-tree: the ids present, one absent id and
\* one argument shorter than two characters.
AbsentId == EncodeToString(Sha1Sum(<<>>))

ShortId == <<97>>

ShaArgs(st) == {l[1] \o l[2] : l \in DOMAIN st} \cup {AbsentId, ShortId}

\* Arguments of hash-object: the paths of the working directory and one
\* path that does not exist.
MissingPath == <<<<109>>>>

PathArgs(f) == (DOMAIN f \ {<<>>}) \cup {MissingPath}

(***************************************************************************)
(* The state machine: one action per command.                              *)
(***************************************************************************)
EmptyStore == [l \in {} |-> <<>>]

\* The store st after the files of w have been written to it.
Merge(st, w) ==
    [l \in DOMAIN st \cup DOMAIN w |-> IF l \in DOMAIN w THEN w[l] ELSE st[l]]

\* What a writing command does is the same from every store: it writes
\* files whose paths and bytes are fixed by its inputs.  Each command is
\* therefore evaluated once per input, from the empty store, and its files
\* are then written to the current store.
FileContents == UNION {{f[q].content : q \in DOMAIN f} : f \in Worktrees}

BlobTable ==
    {<<c, createObject(EmptyStore, KindBlob, c)>> : c \in FileContents}

TreeTable == {<<f, createTreeObjects(f, EmptyStore, <<>>)>> : f \in Worktrees}

CommitTable ==
    {<<t, p, m, commitTree(EmptyStore, t, p, m)>> :
        t \in TreeArgs, p \in ParentArgs, m \in Messages}

BlobOf(c) == (CHOOSE x \in BlobTable : x[1] = c)[2]

TreeOf(f) == (CHOOSE x \in TreeTable : x[1] = f)[2]

CommitOf(t, p, m) ==
    (CHOOSE x \in CommitTable : x[1] = t /\ x[2] = p /\ x[3] = m)[4]

\* Files that another program, or a write cut short, can leave under
\* .git/objects: each is a path and the bytes found there.
ForeignFile(payload, bytes) ==
    [path |-> ObjectPath(EncodeToString(Sha1Sum(payload))), bytes |-> bytes]

\* "blob 3abc": a payload without the NUL after its header.
PayloadNoNul == KindBlob \o <<SP, 51, 97, 98, 99>>

PayloadBlobA == ObjectContent(KindBlob, <<97>>)

PayloadEmptyBlob == ObjectContent(KindBlob, <<>>)

\* A tree of one entry whose digest ends in the bytes "40000".
PayloadTreeDigits ==
    ObjectContent(KindTree,
                  ModeFile \o <<SP>> \o NameLowerA \o <<NUL>>
                      \o [i \in 1..(DigestLen - 5) |-> 200 + i] \o ModeDir)

\* The zlib stream of a payload in two stored blocks: another writer's
\* compression of the same payload.
TwoBlocks(payload) ==
    ZlibHeader \o StoredBlock(SubSeq(payload, 1, 3), 0)
        \o StoredBlock(From(payload, 3), 1) \o Adler32(payload)

\* A stream that ends before its last data byte.
Truncated(bytes) == SubSeq(bytes, 1, Len(bytes) - 5)

\* A stream whose checksum is wrong in its last byte.
BadChecksum(bytes) ==
    [bytes EXCEPT ![Len(bytes)] = (bytes[Len(bytes)] + 1) % 256]

ForeignFiles ==
    << ForeignFile(PayloadNoNul, compressContent(PayloadNoNul)),
       ForeignFile(PayloadBlobA, Truncated(compressContent(PayloadBlobA))),
       ForeignFile(PayloadBlobA, TwoBlocks(PayloadBlobA)),
       ForeignFile(PayloadEmptyBlob, <<0, 0>>),
       ForeignFile(PayloadEmptyBlob,
                   BadChecksum(compressContent(PayloadEmptyBlob))),
       ForeignFile(PayloadTreeDigits, compressContent(PayloadTreeDigits)) >>

\* What cat-file and ls-tree do once os.ReadFile has returned the bytes of
\* the file depends on those bytes alone; each is evaluated once per file
\* content that a store of the model can hold.
AnySha == AbsentId

OneFile(bytes) == [l \in {ObjectPath(AnySha)} |-> bytes]

WrittenFiles ==
    UNION {{<<l, x[2].st[l]>> : l \in DOMAIN x[2].st} : x \in BlobTable}
    \cup UNION {{<<l, x[2].st[l]>> : l \in DOMAIN x[2].st} : x \in TreeTable}
    \cup UNION {{<<l, x[4].st[l]>> : l \in DOMAIN x[4].st} : x \in CommitTable}

StoredBytes ==
    {x[2] : x \in WrittenFiles}
    \cup {ForeignFiles[i].bytes : i \in DOMAIN ForeignFiles}

CatTable == {<<b, catFile(OneFile(b), AnySha)>> : b \in StoredBytes}

LsTable == {<<b, lsTree(OneFile(b), AnySha)>> : b \in StoredBytes}

CatOf(st, sha) ==
    IF Len(sha) >= 2 /\ ObjectPath(sha) \in DOMAIN st
          /\ st[ObjectPath(sha)] \in StoredBytes
    THEN (CHOOSE x \in CatTable : x[1] = st[ObjectPath(sha)])[2]
    ELSE catFile(st, sha)

LsOf(st, sha) ==
    IF Len(sha) >= 2 /\ ObjectPath(sha) \in DOMAIN st
          /\ st[ObjectPath(sha)] \in StoredBytes
    THEN (CHOOSE x \in LsTable : x[1] = st[ObjectPath(sha)])[2]
    ELSE lsTree(st, sha)

Result(op, args, outcome, stdout, items, entries) ==
    [op |-> op, args |-> args, outcome |-> outcome, stdout |-> stdout,
     items |-> items, entries |-> entries]

Init ==
    /\ fs \in Worktrees
    /\ store = EmptyStore
    /\ last = Result("init", <<>>, "ok", <<>>, <<>>, <<>>)

MayWrite == Cardinality(DOMAIN store) < MaxObjects

\* hash-object <filename>
HashObject(filename) ==
    /\ MayWrite
    /\ IF ~CanReadFile(fs, filename)
       THEN /\ store' = store
            /\ last' = Result("hashObject", <<filename>>, "exit", <<>>,
                              <<>>, <<>>)
       ELSE LET r == BlobOf(fs[filename].content)
            IN  /\ store' = Merge(store, r.st)
                /\ last' = Result("hashObject", <<filename>>, "ok",
                                  EncodeToString(r.hash) \o <<LF>>,
                                  <<>>, <<>>)
    /\ UNCHANGED fs

\* cat-file -p <sha>
CatFile(blobSHA) ==
    /\ LET r == CatOf(store, blobSHA)
       IN  last' = Result("catFile", <<blobSHA>>, r.outcome, r.stdout,
                          <<>>, <<>>)
    /\ UNCHANGED <<fs, store>>

\* ls-tree <sha>
LsTree(treeSHA) ==
    /\ LET r == LsOf(store, treeSHA)
       IN  last' = Result("lsTree", <<treeSHA>>, r.outcome, r.stdout,
                          r.items, <<>>)
    /\ UNCHANGED <<fs, store>>

\* write-tree
WriteTree ==
    /\ MayWrite
    /\ LET r == TreeOf(fs)
       IN  /\ store' = Merge(store, r.st)
           /\ last' = Result("writeTree", <<>>, r.outcome,
                             IF r.outcome = "ok"
                             THEN EncodeToString(r.hash) \o <<LF>>
                             ELSE <<>>,
                             <<>>, r.entries)
    /\ UNCHANGED fs

\* commit-tree <tree> -p <parent> -m <message>
CommitTree(treeSHA, parentCommitSHA, commitMessage) ==
    /\ MayWrite
    /\ LET r == CommitOf(treeSHA, parentCommitSHA, commitMessage)
       IN  /\ store' = Merge(store, r.st)
           /\ last' = Result("commitTree",
                             <<treeSHA, parentCommitSHA, commitMessage>>,
                             "ok", EncodeToString(r.hash) \o <<LF>>,
                             <<>>, <<>>)
    /\ UNCHANGED fs

\* A file appears under .git/objects that this program did not write.
ForeignWrite(i) ==
    /\ MayWrite
    /\ store' = WriteFile(store, ForeignFiles[i].path, ForeignFiles[i].bytes)
    /\ last' = Result("foreign", <<>>, "ok", <<>>, <<>>, <<>>)
    /\ UNCHANGED fs

Next ==
    \/ \E filename \in PathArgs(fs) : HashObject(filename)
    \/ \E sha \in ShaArgs(store) : CatFile(sha)
    \/ \E sha \in ShaArgs(store) : LsTree(sha)
    \/ WriteTree
    \/ \E t \in TreeArgs, p \in ParentArgs, m \in Messages :
          CommitTree(t, p, m)

Spec == Init /\ [][Next]_vars

\* The same commands on a store that other writers share.
NextShared ==
    \/ Next
    \/ \E i \in DOMAIN ForeignFiles : ForeignWrite(i)

SpecShared == Init /\ [][NextShared]_vars

(***************************************************************************)
(* Properties.                                                             *)
(***************************************************************************)

\* The id a command printed: its line of output without the newline.
PrintedId == SubSeq(last.stdout, 1, Len(last.stdout) - 1)

Kinds == {KindBlob, KindTree, KindCommit}

\* Every order in which the elements of a sequence can be handed over.
Orders(seq) ==
    LET n == Len(seq)
    IN  {[i \in 1..n |-> seq[pi[i]]] :
            pi \in {f \in [1..n -> 1..n] :
                       \A i, j \in 1..n : f[i] = f[j] => i = j}}

C2_PutNeverUpdates ==
    [][last'.op # "foreign" =>
          \A l \in DOMAIN store : l \in DOMAIN store' /\ store'[l] = store[l]]_vars

\* The file that the last cat-file or ls-tree command read, when present.
ReadPath == ObjectPath(last.args[1])

ReadsStoredFile ==
    /\ last.op \in {"catFile", "lsTree"}
    /\ Len(last.args[1]) >= 2
    /\ ReadPath \in DOMAIN store

HasNul(s) == \E i \in 1..Len(s) : s[i] = NUL

\* C3: cat-file on an object whose decompressed bytes hold no NUL ends in
\* a reported error (the process exits with its error message), never in
\* a panic.
C3_NoSeparatorReported ==
    (/\ ReadsStoredFile
     /\ last.op = "catFile"
     /\ readAndDecompressFile(store, ReadPath).outcome = "ok"
     /\ ~HasNul(readAndDecompressFile(store, ReadPath).content))
        => last.outcome = "exit"

\* Reading the object sha of store st back gives kind k and content c:
\* the decompressed bytes split at the first NUL into the header "k n"
\* and c, and cat-file prints c.
ReadsBack(st, sha, k, c) ==
    LET d == readAndDecompressFile(st, ObjectPath(sha))
    IN  /\ d.outcome = "ok"
        /\ SplitN2(d.content) = <<k \o <<SP>> \o Dec(Len(c)), c>>
        /\ catFile(st, sha) = [outcome |-> "ok", stdout |-> c]

\* C4: full round trip: an object stored by createObject with kind k and
\* content c reads back, by its id, as exactly k and c; for the blob that
\* hash-object stored, for the tree that write-tree stored, and for every
\* kind applied to the content of the file hash-object read.
C4_RoundTrip ==
    /\ (last.op = "hashObject" /\ last.outcome = "ok") =>
          LET c == fs[last.args[1]].content
          IN  /\ ReadsBack(store, PrintedId, KindBlob, c)
              /\ \A k \in Kinds :
                    LET r == createObject(store, k, c)
                    IN  ReadsBack(r.st, EncodeToString(r.hash), k, c)
    /\ (last.op = "writeTree" /\ last.outcome = "ok") =>
          ReadsBack(store, PrintedId, KindTree,
                    TreeObjectContent(last.entries))

\* C4 witness: hash-object has stored a file whose content holds a NUL.
C4_Witness ==
    /\ last.op = "hashObject"
    /\ last.outcome = "ok"
    /\ HasNul(fs[last.args[1]].content)
    /\ ObjectPath(PrintedId) \in DOMAIN store

\* A node that write-tree reaches: no directory above it is skipped or
\* unreadable, and it is not skipped itself.
Reached(f, q) ==
    /\ \A k \in 1..Len(q) : ~SkipsEntry(f, SubSeq(q, 1, k))
    /\ \A k \in 0..(Len(q) - 1) : f[SubSeq(q, 1, k)].readable

\* C5: when a directory or file that build-tree reaches cannot be read,
\* the build aborts: the command ends in an error and prints no tree id.
C5_UnreadableAborts ==
    (/\ last.op = "writeTree"
     /\ \E q \in DOMAIN fs : Reached(fs, q) /\ ~fs[q].readable)
        => (last.outcome = "exit" /\ last.stdout = <<>>)

\* A well-formed zlib stream: the header is accepted and the read ends
\* without an error.
Conformant(bytes) == NewReaderOk(bytes) /\ ReadAll(bytes).err = ""

\* C6: when the stored bytes are a truncated or otherwise non-conformant
\* stream, the command that reads them ends in an error: no content,
\* partial or empty, reaches the caller of readAndDecompressFile.
C6_CorruptStreamReported ==
    (ReadsStoredFile /\ ~Conformant(store[ReadPath]))
        => last.outcome = "exit"

\* C7: ls-tree on the tree that write-tree builds for the working
\* directory lists exactly the names of its entries, in stored order.
C7_LsTreeListsEntries ==
    (/\ ReadsStoredFile
     /\ last.op = "lsTree"
     /\ TreeOf(fs).outcome = "ok"
     /\ last.args[1] = EncodeToString(TreeOf(fs).hash))
        => /\ last.outcome = "ok"
           /\ last.items = [i \in 1..Len(TreeOf(fs).entries) |->
                               TreeOf(fs).entries[i].name]

\* C8: commit-tree with tree T, parent P and message M stores, under the
\* digest of the payload, "commit <length>\0" followed by "tree T\n",
\* "parent P\n", the author line, the committer line, a blank line and M
\* with one newline after it; it prints that digest.
C8_CommitLayout ==
    last.op = "commitTree" =>
        LET content == Flatten(<< WordTree, last.args[1], <<LF>>,
                                  WordParent, last.args[2], <<LF>>,
                                  WordAuthor, author, <<LF>>,
                                  WordCommitter, committer, <<LF>>,
                                  <<LF>>,
                                  last.args[3], <<LF>> >>, 1, 15)
            payload == KindCommit \o <<SP>> \o Dec(Len(content))
                           \o <<NUL>> \o content
            id == EncodeToString(Sha1Sum(payload))
            path == <<SubSeq(id, 1, 2), SubSeq(id, 3, 2 * DigestLen)>>
        IN  /\ PrintedId = id
            /\ path \in DOMAIN store
            /\ Conformant(store[path])
            /\ ReadAll(store[path]).data = payload

\* C8 witness: a commit with a parent and the message "init\n" is stored.
C8_Witness ==
    /\ last.op = "commitTree"
    /\ last.args[2] # <<>>
    /\ last.args[3] = <<105, 110, 105, 116, LF>>
    /\ ObjectPath(PrintedId) \in DOMAIN store

\* The hash of the object that build-tree stores for a child.
ChildId(f, q) ==
    IF f[q].isDir THEN createTreeObjects(f, EmptyStore, q).hash
    ELSE Sha1Sum(ObjectContent(KindBlob, f[q].content))

\* C9: in a working directory where everything can be read, the tree of
\* every directory has exactly one entry per direct child other than the
\* store's own .git (the one in the root): mode 40000 and the id of the
\* child's tree for a subdirectory, mode 100644 and the id of the blob
\* for a file, each id that of an object in the store.
C9_OneEntryPerChild ==
    (/\ last.op = "writeTree"
     /\ last.outcome = "ok"
     /\ \A q \in DOMAIN fs : fs[q].readable)
        => \A d \in {q \in DOMAIN fs : fs[q].isDir /\ (q = <<>> \/ q[1] # DotGit)} :
              LET entries == createTreeObjects(fs, EmptyStore, d).entries
                  kids == ChildNames(fs, d)
                              \ (IF d = <<>> THEN {DotGit} ELSE {})
              IN  /\ Len(entries) = Cardinality(kids)
                  /\ {entries[i].name : i \in 1..Len(entries)} = kids
                  /\ \A i \in 1..Len(entries) :
                        LET q == Append(d, entries[i].name)
                        IN  /\ entries[i].mode =
                                  IF fs[q].isDir THEN ModeDir ELSE ModeFile
                            /\ entries[i].hash = ChildId(fs, q)
                            /\ ObjectPath(EncodeToString(entries[i].hash))
                                  \in DOMAIN store

\* A file of the store sits where the digest of its own payload puts it,
\* and its payload is "<kind> <n>\0<content>" with n the length of content.
GoodFile(path, bytes) ==
    /\ Conformant(bytes)
    /\ LET payload == ReadAll(bytes).data
           id == EncodeToString(Sha1Sum(payload))
           parts == SplitN2(payload)
       IN  /\ path = <<SubSeq(id, 1, 2), SubSeq(id, 3, 2 * DigestLen)>>
           /\ Len(parts) = 2
           /\ \E k \in Kinds : parts[1] = k \o <<SP>> \o Dec(Len(parts[2]))

\* The files, among those the commands can write, that are good: GoodFile
\* evaluated once for each.
GoodFiles == {x \in WrittenFiles : GoodFile(x[1], x[2])}

\* C10: from an empty store, after any sequence of hash-object, write-tree
\* and commit-tree, every object in the store sits at the location derived
\* from the digest of its decompressed payload (directory: the first 2 hex
\* characters, file: the other 38), and the payload is a header
\* "<kind> <length of content>", a NUL and the content.
C10_StoreIntegrity ==
    \A l \in DOMAIN store :
        <<l, store[l]>> \in GoodFiles \/ GoodFile(l, store[l])

\* C10 witness: write-tree has added its objects to a store that already
\* held another object.
C10_Witness ==
    /\ last.op = "writeTree"
    /\ last.outcome = "ok"
    /\ Cardinality(DOMAIN store) > Cardinality(DOMAIN TreeOf(fs).st)
    /\ Cardinality(DOMAIN TreeOf(fs).st) >= 3

====
